---- MODULE Spec2Model ----
(***************************************************************************)
(* Journal ingestion of EDRH: the two tailing monitors of the repository,  *)
(* services/journal_monitor.py (JournalMonitor) and                        *)
(* core/journal_manager.py (JournalManager), run against a journal         *)
(* directory that an external writer (the game client) appends to,         *)
(* rotates and truncates; with them the journal scan of UI.py              *)
(* (App.find_latest_journal_and_pos) and the TaskQueue of                  *)
(* utils/background_task.py.                                               *)
(*                                                                         *)
(* A journal line is written in two pieces: "h", the head of the JSON      *)
(* text (it holds the "event" key), and "t", the rest of the JSON text     *)
(* together with the line terminator.  A file offset counts pieces.        *)
(***************************************************************************)
EXTENDS Integers, Sequences, FiniteSets, TLC

\* ---------------------------------------------------------------- bounds
MaxOps == 2          \* writer operations on the directory in one behaviour
MaxLines == 2        \* lines a journal file may hold
MaxFaults == 1       \* failures (raising callback, failing I/O) in one run
MaxTasks == 3        \* tasks added to a TaskQueue
MaxStarts == 2       \* TaskQueue.start() calls that spawn workers

\* ------------------------------------------------------- the environment
Files == {"A", "B"}                       \* Journal.<ts>.log candidates
Threads == {1, 2}                         \* identities of spawned poll threads
Classes == {"JournalMonitor", "JournalManager"}

\* timestamp embedded in the file name: B is the newer file
EmbeddedTs(f) == IF f = "A" THEN 1 ELSE 2

\* the journal records the writer may emit
EvCommander == [event |-> "Commander", Name |-> "Alice", Commander |-> "None",
                StarSystem |-> "None", StarPos |-> "None"]
EvFSDJump == [event |-> "FSDJump", Name |-> "None", Commander |-> "None",
              StarSystem |-> "Sol", StarPos |-> "P1"]
EvLocation == [event |-> "Location", Name |-> "None", Commander |-> "None",
               StarSystem |-> "Lave", StarPos |-> "None"]
EvMalformed == [event |-> "Malformed", Name |-> "None", Commander |-> "None",
                StarSystem |-> "None", StarPos |-> "None"]
Events == {EvCommander, EvFSDJump, EvLocation, EvMalformed}

\* the game client restarted under another commander
EvLoadGame == [event |-> "LoadGame", Name |-> "None", Commander |-> "Bob",
               StarSystem |-> "None", StarPos |-> "None"]

Piece(e, p) == [ev |-> e, part |-> p]
Line(e) == <<Piece(e, "h"), Piece(e, "t")>>

VARIABLES
    sut,               \* the class under execution
    fs,                \* directory: file -> [exists, data, mtime]
    clock,             \* filesystem time, one step per writer operation
    envlog,            \* history: kinds of writer operations performed
    delivered,         \* history: file -> line number -> callback deliveries
    boot,              \* history: the initial journal, and how many of the
                       \* pieces it held at bootstrap it still holds
    \* JournalMonitor fields
    current_file, current_position, commander_name, system_name, star_pos,
    stop_event,
    mon,               \* thread -> [pc, last_journal, last_size, last_mtime]
    calls,             \* callbacks made by the step just taken
    visited,           \* history: files that have been current_file
    \* JournalManager fields
    mgr_commander_name, mgr_stop_event,
    monitor_thread,    \* [pc, last_journal, last_size, last_mtime,
                       \*  current_size, current_mtime, rpos]
    config_current_journal,   \* ConfigManager.config["current_journal"]
    caller,            \* "idle", or "joining" inside stop_monitoring
    stop_returned,     \* history: stop_monitoring returned, no start since
    \* failures of the monitor's surroundings
    faults,            \* how many more failures (a raising consumer callback,
                       \* a failing stat or open) the run may meet
    tick,              \* history: the cursor and the file stats the running
                       \* tick, or the last tick that read, began with, its
                       \* callbacks, whether it failed
    \* a thread of the consumer reading the JournalMonitor attributes
    snapshot,          \* <<system_name, star_pos>> as last read
    \* the journal directory as get_latest_journal_file and
    \* list_sorted_journals see it during one call
    dir_exists,
    listing,           \* [fn, pc, names, todo, keys, result]
    \* TaskQueue fields
    queue,             \* queue.Queue(): the items in insertion order
    tasks,             \* task_id -> [priority, present, is_running,
                       \*             is_cancelled, completed]
    next_task_id,
    running,
    workers,           \* the worker threads spawned: [pc, task_id] each
    taken,             \* history: the item of the latest queue.get() and
                       \* the items that waited with it
    \* App (UI.py)
    app                \* [file, result]: the latest call of
                       \* find_latest_journal_and_pos and what it returned

envVars == <<fs, clock, envlog>>
NoBoot == [file |-> "None", size |-> 0]
NoTick == [thread |-> 0, position |-> 0, last_size |-> 0, last_mtime |-> 0,
           calls |-> <<>>, failed |-> FALSE]
monFields == <<current_file, current_position, commander_name, system_name,
               star_pos, stop_event, mon, visited>>
monVars == <<monFields, calls>>
mgrVars == <<mgr_commander_name, mgr_stop_event, monitor_thread,
             config_current_journal, caller, stop_returned>>
NoListing == [fn |-> "None", pc |-> "idle", names |-> {}, todo |-> {},
              keys |-> {}, order |-> <<>>, result |-> <<>>]
NoTaken == [item |-> <<>>, waiting |-> <<>>]
NoApp == [file |-> "None", result |-> <<"None", "None">>]
faultVars == <<faults, tick>>
listingVars == <<dir_exists, listing>>
tqVars == <<queue, tasks, next_task_id, running, workers, taken>>
restVars == <<snapshot, listingVars, tqVars, app>>
vars == <<sut, fs, clock, envlog, delivered, boot, current_file, current_position,
          commander_name, system_name, star_pos, stop_event, mon, calls,
          visited, mgr_commander_name, mgr_stop_event, monitor_thread,
          config_current_journal, caller, stop_returned, faults, tick,
          snapshot, dir_exists, listing, queue, tasks, next_task_id, running,
          workers, taken, app>>

\* ------------------------------------------------------------ filesystem
Exists(f) == f \in Files /\ fs[f].exists
Size(f) == Len(fs[f].data)
Mtime(f) == fs[f].mtime
Listdir == {f \in Files : fs[f].exists}

\* number of the line that the piece at offset k (1-based) belongs to
LineNo(data, k) == 1 + Cardinality({j \in 1..(k - 1) : data[j].part = "t"})
NumLines(data) == IF data = <<>> THEN 0 ELSE LineNo(data, Len(data))
AtLineStart(data) == IF data = <<>> THEN TRUE ELSE data[Len(data)].part = "t"

\* the newest file by modification time (sort(key=getmtime, reverse=True)[0])
NewestByMtime(S) == CHOOSE f \in S : \A g \in S : Mtime(g) <= Mtime(f)

\* file.readlines() from an offset: split after every terminator; a final
\* unterminated piece is returned as a line too (the end of the first line
\* is computed once, then the rest is read from there)
RECURSIVE readlines(_, _)
readlines(data, pos) ==
    IF pos >= Len(data) THEN <<>>
    ELSE LET ends == {k \in (pos + 1)..Len(data) : data[k].part = "t"}
             stop == IF ends = {} THEN Len(data)
                     ELSE CHOOSE k \in ends : \A j \in ends : k <= j
         IN  CHOOSE lines \in
                 {<<[at |-> pos + 1, text |-> SubSeq(data, pos + 1, s)]>>
                     \o readlines(data, s) : s \in {stop}} : TRUE

\* f.tell() after readlines(): end of file, or the seek offset when beyond it
tell(data, pos) == IF pos >= Len(data) THEN pos ELSE Len(data)

\* json.loads: the text decodes iff it is one whole well-formed record
Decodes(text) ==
    /\ Len(text) = 2
    /\ text[1].part = "h" /\ text[2].part = "t"
    /\ text[1].ev = text[2].ev
    /\ text[1].ev.event # "Malformed"
json_loads(text) == text[1].ev

\* '"event":"X"' in line : the marker sits in the head of the line
HasMarker(text, kinds) ==
    /\ text # <<>>
    /\ text[1].part = "h"
    /\ text[1].ev.event \in kinds

\* ------------------------------------------------ JournalMonitor helpers
find_latest_journal ==
    IF Listdir = {} THEN "None" ELSE NewestByMtime(Listdir)

\* first Commander/LoadGame line decides; a line that fails to decode ends
\* the scan through the except clause
RECURSIVE extract_commander_name_lines(_)
extract_commander_name_lines(lines) ==
    IF lines = <<>> THEN "Unknown"
    ELSE LET text == Head(lines).text
         IN  IF HasMarker(text, {"Commander", "LoadGame"})
             THEN IF ~Decodes(text) THEN "Unknown"
                  ELSE IF json_loads(text).Commander # "None"
                       THEN json_loads(text).Commander
                  ELSE IF json_loads(text).Name # "None"
                       THEN json_loads(text).Name
                  ELSE extract_commander_name_lines(Tail(lines))
             ELSE extract_commander_name_lines(Tail(lines))

extract_commander_name(f) ==
    IF Exists(f) THEN extract_commander_name_lines(readlines(fs[f].data, 0))
    ELSE "Unknown"

\* last location line wins per field; a decode failure ends the scan and
\* keeps what was found so far.  acc = <<system_name, star_pos>>
RECURSIVE extract_system_info_lines(_, _)
extract_system_info_lines(lines, acc) ==
    IF lines = <<>> THEN acc
    ELSE LET text == Head(lines).text
         IN  IF HasMarker(text, {"FSDJump", "Location", "CarrierJump"})
             THEN IF ~Decodes(text) THEN acc
                  ELSE LET d == json_loads(text)
                           nm == IF d.StarSystem # "None" THEN d.StarSystem
                                 ELSE acc[1]
                           ps == IF d.StarPos # "None" THEN d.StarPos
                                 ELSE acc[2]
                       IN  extract_system_info_lines(Tail(lines), <<nm, ps>>)
             ELSE extract_system_info_lines(Tail(lines), acc)

extract_system_info(f) ==
    IF Exists(f)
    THEN extract_system_info_lines(readlines(fs[f].data, 0), <<"None", "None">>)
    ELSE <<"None", "None">>

\* lines 163-169 of _process_journal_line: the fields a location event sets
NewSystemName(d, old) == IF d.StarSystem # "None" THEN d.StarSystem ELSE old
NewStarPos_overwrite(d, old) == d.StarPos
NewStarPos(d, old) == IF d.StarPos # "None" THEN d.StarPos ELSE old

\* lines 104-105 of _monitor_loop: the identity after a rotation
RotationCommander(latest) ==
    IF commander_name = "Unknown" THEN extract_commander_name(latest)
    ELSE commander_name

\* one callback invocation; raised: the consumer's callback raised
Call(kind, name, position, ev) ==
    [kind |-> kind, name |-> name, position |-> position, event |-> ev,
     raised |-> FALSE]

\* self.callback(...) as the next invocation of a step in which the
\* invocations numbered in raises raise
Invoke(cs, c, raises) ==
    Append(cs, IF Len(cs) + 1 \in raises THEN [c EXCEPT !.raised = TRUE]
               ELSE c)
LastRaised(cs) == cs # <<>> /\ cs[Len(cs)].raised

\* the sets of invocations, among the first n of a step, that may raise
RaiseSets(n) == {r \in SUBSET (1..n) : Cardinality(r) <= faults}
\* whether a stat, getsize or open of the step may fail
Outcomes == IF faults > 0 THEN BOOLEAN ELSE {TRUE}

Bump(dl, f, n) == [dl EXCEPT ![f][n] = @ + 1]

\* lines 181-182 of _process_journal_line: except json.JSONDecodeError: pass
DecodeFailure_reset(st) ==
    [st EXCEPT !.system_name = "Unknown", !.star_pos = "None"]
DecodeFailure(st) == st

\* _process_journal_line on the state
\* st = [system_name, star_pos, calls, dl, raises, seen]; seen collects
\* the values of (system_name, star_pos) that the attributes go through
process_journal_line(st, f, line) ==
    IF ~Decodes(line.text) THEN DecodeFailure(st)
    ELSE LET d == json_loads(line.text)
             n == LineNo(fs[f].data, line.at)
             ev == Call("event", "None", "None", d.event)
         IN  IF d.event \in {"FSDJump", "Location", "CarrierJump"}
             THEN LET nm == NewSystemName(d, st.system_name)
                      ps == NewStarPos(d, st.star_pos)
                      sys == Invoke(st.calls, Call("system", nm, ps, d.event),
                                    st.raises)
                  IN  [st EXCEPT
                          !.system_name = nm,
                          !.star_pos = ps,
                          !.seen = @ \cup {<<nm, st.star_pos>>, <<nm, ps>>},
                          !.calls = IF LastRaised(sys) THEN sys
                                    ELSE Invoke(sys, ev, st.raises),
                          !.dl = Bump(@, f, n)]
             ELSE [st EXCEPT !.calls = Invoke(@, ev, st.raises),
                             !.dl = Bump(@, f, n)]

RECURSIVE process_lines(_, _, _)
process_lines(st, f, lines) ==
    IF lines = <<>> THEN st
    ELSE CHOOSE r \in {process_lines(s, f, Tail(lines)) :
                           s \in {process_journal_line(st, f, Head(lines))}} :
             TRUE

\* the for loop of _read_new_content over the lines read from current_file
ProcessNewLines(raises) ==
    process_lines([system_name |-> system_name, star_pos |-> star_pos,
                   calls |-> <<>>, dl |-> delivered, raises |-> raises,
                   seen |-> {}],
                  current_file,
                  readlines(fs[current_file].data, current_position))

\* ------------------------------------------------ JournalMonitor actions
Running(t) == mon[t].pc \in {"boot", "loop", "read"}

\* start(): clears the stop event and spawns a new thread, unconditionally
JournalMonitor_start ==
    /\ sut = "JournalMonitor"
    /\ \E t \in Threads :
          /\ mon[t].pc = "none"
          /\ \A u \in Threads : mon[u].pc = "none" => t <= u
          /\ mon' = [mon EXCEPT ![t].pc = "boot"]
    /\ stop_event' = FALSE
    /\ calls' = <<>>
    /\ UNCHANGED <<sut, restVars, faultVars, mgrVars, envVars, boot,
                   delivered, current_file, current_position, commander_name,
                   system_name, star_pos, visited>>

JournalMonitor_stop ==
    /\ sut = "JournalMonitor"
    /\ \E t \in Threads : mon[t].pc # "none"
    /\ ~stop_event
    /\ stop_event' = TRUE
    /\ calls' = <<>>
    /\ UNCHANGED <<sut, restVars, faultVars, mgrVars, envVars, boot,
                   delivered, current_file, current_position, commander_name,
                   system_name, star_pos, mon, visited>>

\* _monitor_loop, lines 51-75: the initial journal and the initial state.
\* The two notifications are outside every try: a raising callback ends
\* the thread.  A failing getsize leaves the offset at 0.
monitor_loop_bootstrap(t) ==
    /\ mon[t].pc = "boot"
    /\ \E raises \in RaiseSets(2), getsize_ok \in Outcomes,
          initial \in {find_latest_journal} :
       \E info \in {extract_system_info(initial)},
          name \in {extract_commander_name(initial)} :
       LET nm == IF info[1] # "None" THEN info[1] ELSE system_name
           ps == IF info[2] # "None" THEN info[2] ELSE star_pos
           first == Invoke(<<>>, Call("commander", name, "None", "None"),
                           raises)
           cs == IF LastRaised(first) THEN first
                 ELSE Invoke(first, Call("system", nm, ps, "None"), raises)
       IN  IF initial # "None"
           THEN /\ raises \subseteq 1..Len(cs)
                /\ LastRaised(cs) => getsize_ok
                /\ faults' = faults - Cardinality(raises)
                                    - (IF getsize_ok THEN 0 ELSE 1)
                /\ mon' = [mon EXCEPT
                              ![t].pc = IF LastRaised(cs) THEN "dead"
                                        ELSE "loop",
                              ![t].last_journal = initial]
                /\ current_file' = initial
                /\ commander_name' = name
                /\ system_name' = nm
                /\ star_pos' = ps
                /\ calls' = cs
                /\ current_position' =
                      IF LastRaised(cs) THEN current_position
                      ELSE IF getsize_ok THEN Size(initial) ELSE 0
                /\ visited' = visited \cup {initial}
           ELSE /\ raises = {} /\ getsize_ok
                /\ mon' = [mon EXCEPT ![t].pc = "loop"]
                /\ calls' = <<>>
                /\ UNCHANGED <<faults, current_file, current_position,
                               commander_name, system_name, star_pos, visited>>
    /\ boot' = IF find_latest_journal # "None"
               THEN [file |-> find_latest_journal,
                     size |-> Size(find_latest_journal)]
               ELSE NoBoot
    /\ UNCHANGED <<sut, restVars, tick, mgrVars, envVars, delivered,
                   stop_event>>

\* line 101 of _monitor_loop: the offset after a rotation
RotatedPosition_kept(position) == position
RotatedPosition(position) == 0

\* line 78 of _monitor_loop: while not self.stop_event.is_set()
StopRequested_never == FALSE
StopRequested == stop_event

\* _monitor_loop, lines 78-110: stop check, locate, stat, rotation.  A
\* failing stat skips the tick; a callback raising at line 106 is caught at
\* line 118, after last_journal is set and before last_size and last_mtime
\* are, and the read is not made.
monitor_loop_stat(t) ==
    /\ mon[t].pc = "loop"
    /\ \E stat_ok \in Outcomes, raises \in RaiseSets(1) :
       LET latest == find_latest_journal
           rotated == latest # mon[t].last_journal
           changed == \/ rotated
                      \/ Size(latest) # mon[t].last_size
                      \/ Mtime(latest) # mon[t].last_mtime
           cs == IF rotated /\ commander_name = "Unknown"
                 THEN Invoke(<<>>, Call("commander", RotationCommander(latest),
                                        "None", "None"), raises)
                 ELSE <<>>
           began == [thread |-> t, position |-> current_position,
                     last_size |-> mon[t].last_size,
                     last_mtime |-> mon[t].last_mtime,
                     calls |-> cs, failed |-> FALSE]
       IN  IF StopRequested \/ latest = "None"
           THEN /\ stat_ok /\ raises = {}
                /\ mon' = IF StopRequested THEN [mon EXCEPT ![t].pc = "dead"]
                          ELSE mon
                /\ calls' = <<>>
                /\ tick' = NoTick
                /\ UNCHANGED <<faults, current_file, current_position,
                               commander_name, visited>>
           ELSE IF ~stat_ok
           THEN /\ raises = {}
                /\ faults' = faults - 1
                /\ calls' = <<>>
                /\ tick' = [began EXCEPT !.calls = <<>>, !.failed = TRUE]
                /\ UNCHANGED <<mon, current_file, current_position,
                               commander_name, visited>>
           ELSE IF ~changed
           THEN /\ raises = {}
                /\ calls' = <<>>
                /\ tick' = NoTick
                /\ UNCHANGED <<faults, mon, current_file, current_position,
                               commander_name, visited>>
           ELSE /\ raises \subseteq 1..Len(cs)
                /\ faults' = faults - Cardinality(raises)
                /\ calls' = cs
                /\ mon' = [mon EXCEPT ![t] =
                              IF LastRaised(cs)
                              THEN [mon[t] EXCEPT !.last_journal = latest]
                              ELSE [pc |-> "read", last_journal |-> latest,
                                    last_size |-> Size(latest),
                                    last_mtime |-> Mtime(latest)]]
                /\ tick' = IF LastRaised(cs) THEN NoTick ELSE began
                /\ IF rotated
                   THEN /\ current_file' = latest
                        /\ current_position' =
                              RotatedPosition(current_position)
                        /\ visited' = visited \cup {latest}
                        /\ commander_name' = RotationCommander(latest)
                   ELSE UNCHANGED <<current_file, current_position,
                                    commander_name, visited>>
    /\ UNCHANGED <<sut, restVars, mgrVars, envVars, boot, delivered,
                   system_name, star_pos, stop_event>>

\* _read_new_content with the _process_journal_line calls it makes; the
\* file that has vanished or cannot be opened is given up for this tick
ReadStep(t) ==
    /\ mon[t].pc = "read"
    /\ mon' = [mon EXCEPT ![t].pc = "loop"]
    /\ \E open_ok \in Outcomes :
       IF current_file = "None" \/ ~Exists(current_file) \/ ~open_ok
       THEN /\ IF open_ok THEN TRUE
               ELSE current_file # "None" /\ Exists(current_file)
            /\ faults' = faults - (IF open_ok THEN 0 ELSE 1)
            /\ calls' = <<>>
            /\ tick' = [tick EXCEPT !.failed = TRUE]
            /\ UNCHANGED <<current_position, system_name, star_pos, delivered>>
       ELSE \E raises \in RaiseSets(Len(ProcessNewLines({}).calls)) :
            LET data == fs[current_file].data
                st == ProcessNewLines(raises)
            IN  /\ raises \subseteq 1..Len(st.calls)
                /\ faults' = faults - Cardinality(raises)
                /\ current_position' = tell(data, current_position)
                /\ system_name' = st.system_name
                /\ star_pos' = st.star_pos
                /\ calls' = st.calls
                /\ delivered' = st.dl
                /\ tick' = tick
    /\ UNCHANGED <<sut, listingVars, tqVars, app, mgrVars, envVars, boot,
                   current_file, commander_name, stop_event, visited>>

read_new_content(t) ==
    /\ ReadStep(t)
    /\ UNCHANGED snapshot

\* a thread of the consumer reads the attributes system_name and star_pos,
\* which no lock guards: between two steps of the poll thread ...
Reader_read ==
    /\ sut = "JournalMonitor"
    /\ snapshot' = <<system_name, star_pos>>
    /\ snapshot' # snapshot
    /\ calls' = <<>>
    /\ UNCHANGED <<sut, listingVars, tqVars, app, faultVars, mgrVars, envVars,
                   boot, delivered, monFields>>

\* ... or while the poll thread is inside _process_journal_line, between
\* the assignments of lines 164 and 169 or after them
read_new_content_observed(t) ==
    /\ ReadStep(t)
    /\ current_file # "None" /\ Exists(current_file)
    /\ snapshot' \in ProcessNewLines({}).seen

monitor_loop == \E t \in Threads :
    /\ sut = "JournalMonitor"
    /\ \/ monitor_loop_bootstrap(t)
       \/ monitor_loop_stat(t)
       \/ read_new_content(t)


\* ------------------------------------------------ JournalManager helpers
get_latest_journal_file ==
    IF Listdir = {} THEN "None" ELSE NewestByMtime(Listdir)

\* journal_files.sort(key=extract_timestamp, reverse=True)
RECURSIVE list_sorted(_)
list_sorted(S) ==
    IF S = {} THEN <<>>
    ELSE LET f == CHOOSE x \in S : \A y \in S : EmbeddedTs(y) <= EmbeddedTs(x)
         IN  <<f>> \o list_sorted(S \ {f})

list_sorted_journals == list_sorted(Listdir)

has_fsdjump(f) ==
    \E k \in 1..Len(readlines(fs[f].data, 0)) :
        HasMarker(readlines(fs[f].data, 0)[k].text, {"FSDJump"})

RECURSIVE first_with_fsdjump(_)
first_with_fsdjump(files) ==
    IF files = <<>> THEN "None"
    ELSE IF has_fsdjump(Head(files)) THEN Head(files)
    ELSE first_with_fsdjump(Tail(files))

find_latest_journal_with_fsdjump == first_with_fsdjump(list_sorted_journals)

find_latest_journal_with_valid_data ==
    IF find_latest_journal_with_fsdjump # "None"
    THEN find_latest_journal_with_fsdjump
    ELSE get_latest_journal_file

\* JournalManager.extract_commander_name: undecodable lines are skipped
RECURSIVE mgr_extract_lines(_)
mgr_extract_lines(lines) ==
    IF lines = <<>> THEN "Unknown"
    ELSE LET text == Head(lines).text
         IN  IF ~Decodes(text) THEN mgr_extract_lines(Tail(lines))
             ELSE IF json_loads(text).event = "Commander"
                     /\ json_loads(text).Name # "None"
                  THEN json_loads(text).Name
             ELSE IF json_loads(text).event = "LoadGame"
                     /\ json_loads(text).Commander # "None"
                  THEN json_loads(text).Commander
             ELSE mgr_extract_lines(Tail(lines))

mgr_extract_commander_name(f) ==
    IF Exists(f) THEN mgr_extract_lines(readlines(fs[f].data, 0))
    ELSE "Unknown"

\* ------------------------------------------------ JournalManager actions
is_alive == monitor_thread.pc \in {"boot", "loop", "read"}

NewThread == [id |-> 0, pc |-> "boot", last_journal |-> "None", last_size |-> 0,
              last_mtime |-> 0, current_size |-> 0, current_mtime |-> 0,
              rpos |-> 0]

start_monitoring ==
    /\ sut = "JournalManager"
    /\ caller = "idle"
    /\ ~is_alive
    /\ monitor_thread.id + 1 \in Threads
    /\ mgr_stop_event' = FALSE
    /\ monitor_thread' = [NewThread EXCEPT !.id = monitor_thread.id + 1]
    /\ stop_returned' = FALSE
    /\ UNCHANGED <<sut, restVars, faultVars,
                   envVars, boot, delivered, monVars, mgr_commander_name,
                   config_current_journal, caller>>

\* stop_monitoring up to the join(timeout=2.0)
stop_monitoring ==
    /\ sut = "JournalManager"
    /\ caller = "idle"
    /\ is_alive
    /\ mgr_stop_event' = TRUE
    /\ caller' = "joining"
    /\ UNCHANGED <<sut, restVars, faultVars,
                   envVars, boot, delivered, monVars, mgr_commander_name,
                   monitor_thread, config_current_journal, stop_returned>>

\* join(timeout=2.0) returns when the thread has ended, or after two seconds
\* while the thread is still inside _process_journal_events, where the
\* consumer's callbacks run (the one-second sleep between ticks is shorter
\* than the timeout)
JoinDone == ~is_alive \/ monitor_thread.pc = "read"

stop_monitoring_return ==
    /\ sut = "JournalManager"
    /\ caller = "joining"
    /\ JoinDone
    /\ caller' = "idle"
    /\ stop_returned' = TRUE
    /\ UNCHANGED <<sut, restVars, faultVars,
                   envVars, boot, delivered, monVars, mgr_commander_name,
                   mgr_stop_event, monitor_thread, config_current_journal>>

\* _monitor_thread_func, lines 65-81
InitialJournal ==
    IF config_current_journal # "" /\ Exists(config_current_journal)
    THEN config_current_journal
    ELSE IF find_latest_journal_with_valid_data # "None"
    THEN find_latest_journal_with_valid_data
    ELSE IF find_latest_journal_with_fsdjump # "None"
    THEN find_latest_journal_with_fsdjump
    ELSE get_latest_journal_file

monitor_thread_func_bootstrap ==
    /\ monitor_thread.pc = "boot"
    /\ IF InitialJournal # "None"
       THEN /\ monitor_thread' = [monitor_thread EXCEPT
                                     !.pc = "loop",
                                     !.last_journal = InitialJournal]
            /\ config_current_journal' = InitialJournal
            /\ mgr_commander_name' = mgr_extract_commander_name(InitialJournal)
       ELSE /\ monitor_thread' = [monitor_thread EXCEPT !.pc = "loop"]
            /\ UNCHANGED <<config_current_journal, mgr_commander_name>>
    /\ boot' = IF InitialJournal # "None"
               THEN [file |-> InitialJournal, size |-> Size(InitialJournal)]
               ELSE NoBoot
    /\ UNCHANGED <<sut, restVars, faultVars,
                   envVars, delivered, monVars, mgr_stop_event, caller,
                   stop_returned>>

\* start offset of the read that a tick makes
ReadFrom(last_size) == last_size

\* lines 105-107 of _monitor_thread_func: the identity after a rotation
MgrRotationCommander_unguarded(new_cmdr) == new_cmdr
MgrRotationCommander(new_cmdr) ==
    IF new_cmdr # "Unknown" THEN new_cmdr ELSE mgr_commander_name

\* _monitor_thread_func, lines 83-115: stop check, locate, rotation, stat
monitor_thread_func_stat ==
    /\ monitor_thread.pc = "loop"
    /\ IF mgr_stop_event
       THEN /\ monitor_thread' = [monitor_thread EXCEPT !.pc = "dead"]
            /\ UNCHANGED <<config_current_journal, mgr_commander_name>>
       ELSE LET latest == get_latest_journal_file
                rotated == latest # monitor_thread.last_journal
                last_size == IF rotated THEN 0 ELSE monitor_thread.last_size
                last_mtime == IF rotated THEN 0 ELSE monitor_thread.last_mtime
                new_cmdr == mgr_extract_commander_name(latest)
            IN  IF latest = "None"
                THEN UNCHANGED <<monitor_thread, config_current_journal,
                                 mgr_commander_name>>
                ELSE /\ config_current_journal' =
                           IF rotated THEN latest ELSE config_current_journal
                     /\ mgr_commander_name' =
                           IF rotated THEN MgrRotationCommander(new_cmdr)
                           ELSE mgr_commander_name
                     /\ monitor_thread' =
                           IF Size(latest) > last_size
                              \/ Mtime(latest) > last_mtime
                           THEN [id |-> monitor_thread.id,
                                 pc |-> "read", last_journal |-> latest,
                                 last_size |-> last_size,
                                 last_mtime |-> last_mtime,
                                 current_size |-> Size(latest),
                                 current_mtime |-> Mtime(latest),
                                 rpos |-> ReadFrom(last_size)]
                           ELSE [monitor_thread EXCEPT
                                    !.last_journal = latest,
                                    !.last_size = last_size,
                                    !.last_mtime = last_mtime]
    /\ UNCHANGED <<sut, restVars, faultVars,
                   envVars, boot, delivered, monVars, mgr_stop_event, caller,
                   stop_returned>>

\* _process_journal_events: one turn of "for line in f", and lines 118-119
\* when the file is exhausted
process_journal_events ==
    /\ monitor_thread.pc = "read"
    /\ LET f == monitor_thread.last_journal
           lines == readlines(fs[f].data, monitor_thread.rpos)
       IN  IF lines # <<>>
           THEN /\ monitor_thread' =
                      [monitor_thread EXCEPT
                          !.rpos = Head(lines).at - 1 + Len(Head(lines).text)]
                /\ delivered' =
                      IF Decodes(Head(lines).text)
                      THEN Bump(delivered, f,
                                LineNo(fs[f].data, Head(lines).at))
                      ELSE delivered
           ELSE /\ monitor_thread' =
                      [monitor_thread EXCEPT
                          !.pc = "loop",
                          !.last_size = monitor_thread.current_size,
                          !.last_mtime = monitor_thread.current_mtime,
                          !.current_size = 0, !.current_mtime = 0, !.rpos = 0]
                /\ UNCHANGED delivered
    /\ UNCHANGED <<sut, restVars, faultVars,
                   envVars, boot, monVars, mgr_commander_name, mgr_stop_event,
                   config_current_journal, caller, stop_returned>>

monitor_thread_func ==
    /\ sut = "JournalManager"
    /\ \/ monitor_thread_func_bootstrap
       \/ monitor_thread_func_stat
       \/ process_journal_events

\* ------------------------------- JournalManager: one call of a listing
\* get_latest_journal_file and list_sorted_journals statement by statement,
\* while the directory changes under them.  result is the list returned, or
\* for get_latest_journal_file <<file>>, with <<>> for None.
ListingFns == {"get_latest_journal_file", "list_sorted_journals"}

call_listing == \E fn \in ListingFns :
    /\ sut = "JournalManager"
    /\ listing.pc \in {"idle", "returned", "raised"}
    /\ listing' = [NoListing EXCEPT !.fn = fn, !.pc = "exists"]
    /\ UNCHANGED <<sut, snapshot, tqVars, app, faultVars, mgrVars, envVars, boot,
                   delivered, monVars, dir_exists>>

\* if not os.path.exists(self.journal_path): return None / []
listing_exists ==
    /\ listing.pc = "exists"
    /\ listing' = [listing EXCEPT
                      !.pc = IF dir_exists THEN "listdir" ELSE "returned"]
    /\ UNCHANGED <<sut, snapshot, tqVars, app, faultVars, mgrVars, envVars, boot,
                   delivered, monVars, dir_exists>>

\* for filename in os.listdir(self.journal_path): raises when the directory
\* is gone; list_sorted_journals then sorts by name and returns
listing_listdir ==
    /\ listing.pc = "listdir"
    /\ listing' =
          IF ~dir_exists THEN [listing EXCEPT !.pc = "raised"]
          ELSE IF listing.fn = "list_sorted_journals"
          THEN [listing EXCEPT !.pc = "returned", !.names = Listdir,
                               !.result = list_sorted_journals]
          ELSE IF Listdir = {}
          THEN [listing EXCEPT !.pc = "returned"]
          ELSE [listing EXCEPT !.pc = "sort", !.names = Listdir,
                               !.todo = Listdir]
    /\ UNCHANGED <<sut, snapshot, tqVars, app, faultVars, mgrVars, envVars, boot,
                   delivered, monVars, dir_exists>>

\* the newest of the files by the keys that the sort has computed
NewestByKey(keys) ==
    (CHOOSE k \in keys : \A j \in keys : j[2] <= k[2])[1]

\* journal_files.sort(key=lambda x: os.path.getmtime(x), reverse=True): one
\* getmtime per file, which raises when the file is gone; after the last
\* one, return journal_files[0]
listing_getmtime == \E f \in listing.todo :
    /\ listing.pc = "sort"
    /\ listing' =
          IF ~Exists(f) THEN [listing EXCEPT !.pc = "raised"]
          ELSE LET keys == listing.keys \cup {<<f, Mtime(f)>>}
               IN  IF listing.todo = {f}
                   THEN [listing EXCEPT !.pc = "returned", !.todo = {},
                                        !.keys = keys,
                                        !.result = <<NewestByKey(keys)>>]
                   ELSE [listing EXCEPT !.todo = @ \ {f}, !.keys = keys]
    /\ UNCHANGED <<sut, snapshot, tqVars, app, faultVars, mgrVars, envVars, boot,
                   delivered, monVars, dir_exists>>

\* a journal file is removed from the directory
RemoveFile == \E f \in Files :
    /\ fs[f].exists
    /\ fs' = [fs EXCEPT ![f].exists = FALSE, ![f].data = <<>>]
    /\ calls' = <<>>
    /\ UNCHANGED <<sut, restVars, faultVars, mgrVars, clock, envlog, boot,
                   delivered, monFields>>

\* the journal directory is removed, or becomes inaccessible, with its files
RemoveDirectory ==
    /\ dir_exists
    /\ dir_exists' = FALSE
    /\ fs' = [f \in Files |-> [fs[f] EXCEPT !.exists = FALSE, !.data = <<>>]]
    /\ UNCHANGED <<sut, snapshot, listing, tqVars, app, faultVars, mgrVars, clock,
                   envlog, boot, delivered, monVars>>

\* ------------------- JournalManager: list_sorted_journals on any directory
\* file names a journal directory may hold, in ascending string order: two
\* journals of one timestamp (%f reads "01" and "010" as the same
\* fraction), an older journal, two journals named in the legacy format,
\* which strptime rejects, and a file that is no journal
DirNames == <<"Journal.2024-01-01T000000.01.log",
              "Journal.2024-01-02T000000.01.log",
              "Journal.2024-01-02T000000.010.log",
              "Journal.240101000000.01.log",
              "Journal.240102000000.01.log",
              "notes.txt">>
DirNameSet == {DirNames[i] : i \in 1..Len(DirNames)}

\* filename.startswith("Journal.") and filename.endswith(".log")
IsJournalName(name) == name # "notes.txt"

\* extract_timestamp: the parsed timestamp, 0 when strptime raises
extract_timestamp(name) ==
    CASE name = "Journal.2024-01-01T000000.01.log" -> 1
      [] name = "Journal.2024-01-02T000000.01.log" -> 2
      [] name = "Journal.2024-01-02T000000.010.log" -> 2
      [] OTHER -> 0

\* what os.listdir may return: the names present, in arbitrary order
RECURSIVE ListdirOutputs(_)
ListdirOutputs(n) ==
    IF n = 0 THEN {<<>>}
    ELSE LET shorter == ListdirOutputs(n - 1)
         IN  shorter \cup
             {Append(o, name) : o \in {x \in shorter : Len(x) = n - 1},
                                name \in DirNameSet}

NoDuplicate(o) == \A i \in 1..Len(o), j \in 1..Len(o) : o[i] = o[j] => i = j

\* list.sort(key=extract_timestamp, reverse=True) is stable: elements of
\* equal key keep the order they have in the list
RECURSIVE sort_by_timestamp(_)
sort_by_timestamp(files) ==
    IF files = <<>> THEN <<>>
    ELSE LET n == Len(files)
             sorted == sort_by_timestamp(SubSeq(files, 1, n - 1))
             k == Cardinality({i \in 1..(n - 1) :
                     extract_timestamp(sorted[i])
                        >= extract_timestamp(files[n])})
         IN  SubSeq(sorted, 1, k) \o <<files[n]>> \o SubSeq(sorted, k + 1, n - 1)

\* list_sorted_journals, lines 260-281, on the output of os.listdir
list_sorted_journals_of(order) ==
    sort_by_timestamp(SelectSeq(order, IsJournalName))

list_sorted_journals_call ==
    \E o \in ListdirOutputs(Len(DirNames)) :
        /\ sut = "JournalManager"
        /\ listing.pc = "idle"
        /\ NoDuplicate(o)
        /\ listing' = [NoListing EXCEPT
                          !.fn = "list_sorted_journals", !.pc = "returned",
                          !.order = o, !.result = list_sorted_journals_of(o)]
        /\ UNCHANGED <<sut, snapshot, tqVars, app, faultVars, mgrVars, envVars,
                       boot, delivered, monVars, dir_exists>>

\* --------------------------- App (UI.py): find_latest_journal_and_pos
\* the for loop over the lines of the file.  acc = [sys, pos, coords]; the
\* local coords is assigned only under 'if "StarPos" in d' and is read by
\* the next statement whatever the event holds: while it is unbound that
\* read raises UnboundLocalError, which the outer except turns into
\* (None, None)
RECURSIVE find_pos_lines(_, _)
find_pos_lines(lines, acc) ==
    IF lines = <<>> THEN <<acc.sys, acc.pos>>
    ELSE LET text == Head(lines).text
         IN  IF ~HasMarker(text, {"FSDJump", "Location", "CarrierJump"})
             THEN find_pos_lines(Tail(lines), acc)
             ELSE IF ~Decodes(text)
             THEN find_pos_lines(Tail(lines), acc)
             ELSE LET d == json_loads(text)
                      sys == IF d.StarSystem # "None" THEN d.StarSystem
                             ELSE acc.sys
                      coords == IF d.StarPos # "None" THEN d.StarPos
                                ELSE acc.coords
                  IN  IF coords = "Unbound" THEN <<"None", "None">>
                      ELSE find_pos_lines(Tail(lines),
                               [sys |-> sys, pos |-> coords, coords |-> coords])

find_latest_journal_and_pos(fp) ==
    IF ~Exists(fp) THEN <<"None", "None">>
    ELSE find_pos_lines(readlines(fs[fp].data, 0),
                        [sys |-> "None", pos |-> "None", coords |-> "Unbound"])

\* sysnm, pos = self.find_latest_journal_and_pos(latest), on any file
App_find_latest_journal_and_pos == \E fp \in Files :
    /\ sut = "App"
    /\ app' = [file |-> fp, result |-> find_latest_journal_and_pos(fp)]
    /\ UNCHANGED <<sut, snapshot, listingVars, tqVars, faultVars, mgrVars,
                   envVars, boot, delivered, monVars>>

\* -------------------------------------------------------------- TaskQueue
\* TaskQueue(max_workers): the argument of the constructor
max_workers == 1
Priorities == {0, 1}
TaskIds == 0..(MaxTasks - 1)

journalVars == <<sut, snapshot, listingVars, app, faultVars, mgrVars,
                 envVars, boot, delivered, monVars>>

\* BackgroundTask.__init__, as add_task stores it in self.tasks; present:
\* the id is a key of self.tasks; completed: on_complete was invoked;
\* cancelled_queued: cancel_task returned True before a worker started it
NewTask(priority) ==
    [priority |-> priority, present |-> TRUE, is_running |-> FALSE,
     is_cancelled |-> FALSE, completed |-> FALSE, cancelled_queued |-> FALSE]

\* no worker has called task.start() on the task
NotStarted(task_id) ==
    \A w \in 1..Len(workers) :
        workers[w].task_id = task_id => workers[w].pc = "start"

\* start(): returns at once when running, else spawns max_workers threads
TaskQueue_start ==
    /\ sut = "TaskQueue"
    /\ ~running
    /\ Len(workers) + max_workers <= max_workers * MaxStarts
    /\ running' = TRUE
    /\ workers' = workers \o [i \in 1..max_workers |->
                                 [pc |-> "get", task_id |-> -1]]
    /\ UNCHANGED <<journalVars, queue, tasks, next_task_id, taken>>

\* stop(): empties the queue; join(0.1) does not wait for a worker that is
\* blocked in queue.get(timeout=0.5) or runs a task, and self.workers = []
\* only forgets the threads
TaskQueue_stop ==
    /\ sut = "TaskQueue"
    /\ running
    /\ running' = FALSE
    /\ queue' = <<>>
    /\ UNCHANGED <<journalVars, tasks, next_task_id, workers, taken>>

\* add_task: self.queue.put((-priority, task_id)) on a queue.Queue, which
\* is first in, first out
add_task == \E priority \in Priorities :
    /\ sut = "TaskQueue"
    /\ next_task_id \in TaskIds
    /\ next_task_id' = next_task_id + 1
    /\ tasks' = [tasks EXCEPT ![next_task_id] = NewTask(priority)]
    /\ queue' = Append(queue, <<-priority, next_task_id>>)
    /\ UNCHANGED <<journalVars, running, workers, taken>>

cancel_task == \E task_id \in TaskIds :
    /\ sut = "TaskQueue"
    /\ tasks[task_id].present
    /\ ~tasks[task_id].is_cancelled
    /\ tasks' = [tasks EXCEPT
                    ![task_id].is_cancelled = TRUE,
                    ![task_id].cancelled_queued = @ \/ NotStarted(task_id)]
    /\ UNCHANGED <<journalVars, queue, next_task_id, running, workers, taken>>

\* _worker_loop, lines 245-251: the loop test and queue.get
worker_get(w) ==
    /\ workers[w].pc = "get"
    /\ IF ~running
       THEN /\ workers' = [workers EXCEPT ![w].pc = "dead"]
            /\ UNCHANGED <<queue, taken>>
       ELSE /\ queue # <<>>
            /\ queue' = Tail(queue)
            /\ taken' = [item |-> Head(queue), waiting |-> Tail(queue)]
            /\ workers' = [workers EXCEPT ![w] =
                              [pc |-> "start", task_id |-> Head(queue)[2]]]
    /\ UNCHANGED <<journalVars, tasks, next_task_id, running>>

\* _worker_loop, lines 254-262, with BackgroundTask.start, lines 52-58
worker_start(w) ==
    /\ workers[w].pc = "start"
    /\ LET id == workers[w].task_id
       IN  IF ~tasks[id].present
           THEN /\ workers' = [workers EXCEPT ![w] =
                                 [pc |-> "get", task_id |-> -1]]
                /\ UNCHANGED tasks
           ELSE /\ workers' = [workers EXCEPT ![w].pc = "wait"]
                /\ tasks' = IF tasks[id].is_running THEN tasks
                            ELSE [tasks EXCEPT ![id].is_running = TRUE,
                                               ![id].is_cancelled = FALSE]
    /\ UNCHANGED <<journalVars, queue, next_task_id, running, taken>>

\* BackgroundTask.start.run, lines 60-100: the task function returns
task_run == \E id \in TaskIds :
    /\ sut = "TaskQueue"
    /\ tasks[id].is_running
    /\ tasks' = [tasks EXCEPT
                    ![id].is_running = FALSE,
                    ![id].completed = @ \/ ~tasks[id].is_cancelled]
    /\ UNCHANGED <<journalVars, queue, next_task_id, running, workers, taken>>

\* _worker_loop, lines 265-277: the wait ends when the task has ended, or
\* with task.cancel() when the queue was stopped; the task is forgotten
worker_wait(w) ==
    /\ workers[w].pc = "wait"
    /\ LET id == workers[w].task_id
       IN  /\ ~tasks[id].is_running \/ ~running
           /\ tasks' = [tasks EXCEPT
                           ![id].is_cancelled = @ \/ tasks[id].is_running,
                           ![id].present = FALSE]
    /\ workers' = [workers EXCEPT ![w] = [pc |-> "get", task_id |-> -1]]
    /\ UNCHANGED <<journalVars, queue, next_task_id, running, taken>>

worker_loop == \E w \in 1..Len(workers) :
    /\ sut = "TaskQueue"
    /\ \/ worker_get(w)
       \/ worker_start(w)
       \/ worker_wait(w)

\* ------------------------------------------------------------ the writer
InitialClock == Cardinality(Files)

Written(f, data, kind) ==
    /\ clock < InitialClock + MaxOps
    /\ clock' = clock + 1
    /\ fs' = [fs EXCEPT ![f] = [exists |-> TRUE, data |-> data,
                                mtime |-> clock + 1]]
    /\ envlog' = envlog \cup ({kind} \ {"create"})

\* a new journal file appears
WriterCreate == \E f \in Files :
    /\ ~fs[f].exists
    /\ Written(f, <<>>, "create")
    /\ delivered' = [delivered EXCEPT ![f] = [n \in 1..(MaxLines + 1) |-> 0]]
    /\ calls' = <<>>
    /\ UNCHANGED <<sut, restVars, faultVars, mgrVars, boot, monFields>>

\* one complete line is appended in a single write
WriterAppend == \E f \in Files, e \in Events :
    /\ fs[f].exists
    /\ AtLineStart(fs[f].data)
    /\ NumLines(fs[f].data) < MaxLines
    /\ Written(f, fs[f].data \o Line(e), "append")
    /\ calls' = <<>>
    /\ UNCHANGED <<sut, restVars, faultVars,
                   mgrVars, boot, delivered, monFields>>

\* the line of a LoadGame event is appended in a single write
WriterAppendLoadGame == \E f \in Files :
    /\ fs[f].exists
    /\ AtLineStart(fs[f].data)
    /\ NumLines(fs[f].data) < MaxLines
    /\ Written(f, fs[f].data \o Line(EvLoadGame), "append")
    /\ calls' = <<>>
    /\ UNCHANGED <<sut, restVars, faultVars,
                   mgrVars, boot, delivered, monFields>>

\* a line is flushed without its tail and terminator; the events are those
\* that decode once complete (a malformed line is malformed whole or not)
WriterAppendPartial == \E f \in Files, e \in Events \ {EvMalformed} :
    /\ fs[f].exists
    /\ AtLineStart(fs[f].data)
    /\ NumLines(fs[f].data) < MaxLines
    /\ Written(f, Append(fs[f].data, Piece(e, "h")), "partial")
    /\ calls' = <<>>
    /\ UNCHANGED <<sut, restVars, faultVars,
                   mgrVars, boot, delivered, monFields>>

\* ... and completed by a later write
WriterComplete == \E f \in Files :
    /\ fs[f].exists
    /\ ~AtLineStart(fs[f].data)
    /\ Written(f, Append(fs[f].data,
                         Piece(fs[f].data[Len(fs[f].data)].ev, "t")), "complete")
    /\ calls' = <<>>
    /\ UNCHANGED <<sut, restVars, faultVars,
                   mgrVars, boot, delivered, monFields>>

\* the modification time changes, the bytes do not
WriterTouch == \E f \in Files :
    /\ fs[f].exists
    /\ Written(f, fs[f].data, "touch")
    /\ calls' = <<>>
    /\ UNCHANGED <<sut, restVars, faultVars,
                   mgrVars, boot, delivered, monFields>>

\* the file is rewritten from scratch: its lines are new lines
WriterTruncate == \E f \in Files :
    /\ fs[f].exists
    /\ fs[f].data # <<>>
    /\ Written(f, <<>>, "truncate")
    /\ delivered' = [delivered EXCEPT ![f] = [n \in 1..(MaxLines + 1) |-> 0]]
    /\ boot' = IF boot.file = f THEN [boot EXCEPT !.size = 0] ELSE boot
    /\ calls' = <<>>
    /\ UNCHANGED <<sut, restVars, faultVars, mgrVars, monFields>>

Writer ==
    \/ WriterCreate
    \/ WriterAppend
    \/ WriterAppendPartial
    \/ WriterComplete
    \/ WriterTouch
    \/ WriterTruncate

\* ------------------------------------------------------- initial states
\* content of the journals at start-up: the newest-named file B, when it
\* exists, already holds a jump (an empty B is what WriterCreate makes)
InitialData == {<<>>, Line(EvCommander), Line(EvFSDJump)}

InitFs ==
    /\ clock = InitialClock
    /\ envlog = {}
    /\ \E da \in InitialData, xb \in BOOLEAN :
       \E db \in {Line(EvFSDJump)}, newer \in (IF xb THEN Files ELSE {"A"}) :
          fs = [f \in Files |->
                  [exists |-> (f = "A" \/ xb),
                   data |-> IF f = "A" THEN da ELSE IF xb THEN db ELSE <<>>,
                   mtime |-> IF f = newer THEN InitialClock
                                      ELSE InitialClock - 1]]
    /\ delivered = [f \in Files |-> [n \in 1..(MaxLines + 1) |-> 0]]
    /\ boot = NoBoot

\* the directory exists and no listing call is under way
InitListing ==
    /\ dir_exists = TRUE
    /\ listing = NoListing

\* TaskQueue.__init__
InitTaskQueue ==
    /\ queue = <<>>
    /\ tasks = [id \in TaskIds |-> [NewTask(0) EXCEPT !.present = FALSE]]
    /\ next_task_id = 0
    /\ running = FALSE
    /\ workers = <<>>
    /\ taken = NoTaken

\* JournalMonitor.__init__
InitMonitor ==
    /\ current_file = "None"
    /\ current_position = 0
    /\ stop_event = FALSE
    /\ commander_name = "Unknown"
    /\ system_name = "Unknown"
    /\ star_pos = "None"
    /\ mon = [t \in Threads |-> [pc |-> "none", last_journal |-> "None",
                                 last_size |-> 0, last_mtime |-> 0]]
    /\ calls = <<>>
    /\ visited = {}
    /\ tick = NoTick
    /\ snapshot = <<"Unknown", "None">>

\* JournalManager.__init__ over a config file left by an earlier run
InitManager ==
    /\ mgr_commander_name = "Unknown"
    /\ mgr_stop_event = FALSE
    /\ monitor_thread = [NewThread EXCEPT !.pc = "none"]
    /\ config_current_journal \in
          IF sut = "JournalManager" THEN {""} \cup Files ELSE {""}
    /\ caller = "idle"
    /\ stop_returned = FALSE

\* everything but the class under execution and the failures to come
InitRun ==
    /\ InitFs
    /\ app = NoApp
    /\ InitMonitor
    /\ InitManager
    /\ InitListing
    /\ InitTaskQueue

Init ==
    /\ sut \in Classes
    /\ faults = 0
    /\ InitRun

\* the caller of one monitor run: start once, never stop
StartOnce ==
    \/ /\ \A t \in Threads : mon[t].pc = "none"
       /\ JournalMonitor_start
    \/ /\ monitor_thread.pc = "none"
       /\ start_monitoring

Next ==
    \/ Writer
    \/ StartOnce
    \/ monitor_loop
    \/ monitor_thread_func

Spec == Init /\ [][Next]_vars

\* any sequence of start and stop calls, over one journal file that the
\* writer appends to
InitStartStop ==
    /\ Init
    /\ ~fs["B"].exists

NextStartStop ==
    \/ WriterAppend
    \/ JournalMonitor_start
    \/ JournalMonitor_stop
    \/ monitor_loop
    \/ start_monitoring
    \/ stop_monitoring
    \/ stop_monitoring_return
    \/ monitor_thread_func

SpecStartStop == InitStartStop /\ [][NextStartStop]_vars

StartMonitorOnce ==
    /\ \A t \in Threads : mon[t].pc = "none"
    /\ JournalMonitor_start

\* one run of JournalMonitor, started once and stopped at any moment, in
\* which the consumer's callback may raise and stat and open may fail
InitFaults ==
    /\ sut = "JournalMonitor"
    /\ faults = MaxFaults
    /\ InitRun

NextFaults ==
    \/ Writer
    \/ StartMonitorOnce
    \/ JournalMonitor_stop
    \/ monitor_loop

SpecFaults == InitFaults /\ [][NextFaults]_vars

\* one run of JournalMonitor next to a thread that reads its attributes
InitReader ==
    /\ sut = "JournalMonitor"
    /\ faults = 0
    /\ InitRun

monitor_loop_observed == \E t \in Threads : read_new_content_observed(t)

NextReader ==
    \/ Writer
    \/ StartMonitorOnce
    \/ monitor_loop
    \/ monitor_loop_observed
    \/ Reader_read

\* start and stop calls on a JournalMonitor over one journal file that
\* gains lines, whose poll threads are
\* scheduled: a thread that can take a step takes it in the end (the
\* sleeps of the loop are finite and the thread is a daemon thread of a
\* running process)
InitStop ==
    /\ InitReader
    /\ ~fs["B"].exists

NextStop ==
    \/ WriterAppendLoadGame
    \/ JournalMonitor_start
    \/ JournalMonitor_stop
    \/ monitor_loop

thread_step(t) ==
    /\ sut = "JournalMonitor"
    /\ \/ monitor_loop_bootstrap(t)
       \/ monitor_loop_stat(t)
       \/ read_new_content(t)

SpecStop ==
    /\ InitStop
    /\ [][NextStop]_vars
    /\ \A t \in Threads : WF_vars(thread_step(t))

\* one run of JournalMonitor, started once and never stopped
NextMonitor ==
    \/ Writer
    \/ StartMonitorOnce
    \/ monitor_loop

SpecMonitor == InitReader /\ [][NextMonitor]_vars

SpecReader == InitReader /\ [][NextReader]_vars

\* calls of get_latest_journal_file and list_sorted_journals over a
\* directory from which files, and the directory itself, are removed
InitCalls ==
    /\ sut = "JournalManager"
    /\ faults = 0
    /\ InitRun

NextListing ==
    \/ call_listing
    \/ listing_exists
    \/ listing_listdir
    \/ listing_getmtime
    \/ RemoveFile
    \/ RemoveDirectory
    \/ WriterTouch

SpecListing == InitCalls /\ [][NextListing]_vars

\* one call of list_sorted_journals over a directory of any content
InitSort ==
    /\ InitCalls
    /\ config_current_journal = ""
    /\ fs["A"].data = <<>> /\ fs["A"].mtime = InitialClock
    /\ ~fs["B"].exists

SpecSort == InitSort /\ [][list_sorted_journals_call]_vars

\* calls of App.find_latest_journal_and_pos on journals that are written
InitApp ==
    /\ sut = "App"
    /\ faults = 0
    /\ InitRun

NextApp ==
    \/ Writer
    \/ App_find_latest_journal_and_pos

SpecApp == InitApp /\ [][NextApp]_vars

\* a TaskQueue under any sequence of start, stop, add_task and cancel_task
\* calls; the journal side is at rest
InitTasks ==
    /\ sut = "TaskQueue"
    /\ faults = 0
    /\ InitRun
    /\ fs["A"].data = <<>> /\ fs["A"].mtime = InitialClock
    /\ ~fs["B"].exists

NextTasks ==
    \/ TaskQueue_start
    \/ TaskQueue_stop
    \/ add_task
    \/ cancel_task
    \/ task_run
    \/ worker_loop

SpecTaskQueue == InitTasks /\ [][NextTasks]_vars

\* one run of JournalMonitor over a directory in which journal files are
\* written, touched and removed
NextVanish ==
    \/ WriterCreate
    \/ WriterAppend
    \/ WriterTouch
    \/ RemoveFile
    \/ StartMonitorOnce
    \/ monitor_loop

SpecVanish == InitReader /\ [][NextVanish]_vars

\* one run of JournalMonitor over journals in which the game client logs
\* a second commander
NextIdentity ==
    \/ WriterCreate
    \/ WriterAppend
    \/ WriterAppendLoadGame
    \/ StartMonitorOnce
    \/ monitor_loop

SpecIdentity == InitReader /\ [][NextIdentity]_vars

\* ================================================================ claims
PiecesOf(f, n) == {k \in 1..Size(f) : LineNo(fs[f].data, k) = n}
LinesOf(f) == 1..NumLines(fs[f].data)

\* line n of f is a whole, decodable record
LineValid(f, n) ==
    \E k \in PiecesOf(f, n) :
        k + 1 \in PiecesOf(f, n) /\ Decodes(SubSeq(fs[f].data, k, k + 1))

\* line n of f was written after the bootstrap of the run / was there before
AfterBoot(f, n) == boot.file = f /\ \A k \in PiecesOf(f, n) : k > boot.size
BeforeBoot(f, n) == boot.file = f /\ \A k \in PiecesOf(f, n) : k <= boot.size

\* the poll thread is between two ticks and its next tick would read nothing
MonCaughtUp ==
    \E t \in Threads :
        /\ mon[t].pc = "loop"
        /\ find_latest_journal = mon[t].last_journal
        /\ find_latest_journal # "None"
        /\ Size(find_latest_journal) = mon[t].last_size
        /\ Mtime(find_latest_journal) = mon[t].last_mtime

MgrCaughtUp ==
    /\ monitor_thread.pc = "loop"
    /\ get_latest_journal_file = monitor_thread.last_journal
    /\ get_latest_journal_file # "None"
    /\ Size(get_latest_journal_file) <= monitor_thread.last_size
    /\ Mtime(get_latest_journal_file) <= monitor_thread.last_mtime

\* C1: JournalManager passes every complete valid line appended to the one
\* active journal file to event_callback exactly once, however the appends
\* interleave with the poll ticks: never twice, and once the thread has
\* caught up, not zero times.
C1_EveryLineExactlyOnce ==
    (sut = "JournalManager" /\ ~fs["B"].exists /\ envlog \subseteq {"append"})
    => /\ \A n \in LinesOf("A") : delivered["A"][n] <= 1
       /\ MgrCaughtUp =>
             \A n \in LinesOf("A") :
                 AfterBoot("A", n) /\ LineValid("A", n)
                     => delivered["A"][n] = 1

\* C2: JournalMonitor makes no callback for a line that still lacks its
\* terminator and keeps current_position before it; once the line is
\* completed it is delivered exactly once.
C2_PartialLineDeferred ==
    (sut = "JournalMonitor" /\ ~fs["B"].exists /\ "truncate" \notin envlog)
    => /\ (~AtLineStart(fs["A"].data)
            /\ AfterBoot("A", NumLines(fs["A"].data)))
          => /\ delivered["A"][NumLines(fs["A"].data)] = 0
             /\ current_position < Size("A")
       /\ \A n \in LinesOf("A") : delivered["A"][n] <= 1
       /\ MonCaughtUp =>
             \A n \in LinesOf("A") :
                 AfterBoot("A", n) /\ LineValid("A", n)
                     => delivered["A"][n] = 1

\* C3: once JournalMonitor, bootstrapped on file f, has rotated to a file g
\* with a newer embedded timestamp, it delivers no further event from f,
\* and every line of g at most once.
C3_RotationSwitchesCleanly ==
    [][\A f \in Files, g \in Files :
          (/\ sut = "JournalMonitor"
           /\ boot.file = f
           /\ g \in visited
           /\ EmbeddedTs(g) > EmbeddedTs(f))
          => /\ \A n \in 1..MaxLines : delivered'[f][n] <= delivered[f][n]
             /\ \A n \in 1..MaxLines : delivered'[g][n] <= 1]_vars

\* C4: after the active file was shrunk and fresh lines were appended,
\* JournalMonitor has reset current_position into the new content and has
\* delivered every line of the new content.
C4_TruncationResets ==
    (/\ sut = "JournalMonitor"
     /\ ~fs["B"].exists
     /\ "truncate" \in envlog
     /\ envlog \subseteq {"truncate", "append"}
     /\ boot.file = "A"
     /\ MonCaughtUp)
    => /\ current_position <= Size("A")
       /\ \A n \in LinesOf("A") :
             AfterBoot("A", n) /\ LineValid("A", n) => delivered["A"][n] = 1

\* C5: JournalMonitor never delivers a line twice, and while no journal file
\* has gained bytes (at most modification times changed) it delivers nothing.
C5_NoReprocessing ==
    sut = "JournalMonitor"
    => /\ \A f \in Files, n \in 1..MaxLines : delivered[f][n] <= 1
       /\ envlog \subseteq {"touch"}
             => \A f \in Files, n \in 1..MaxLines : delivered[f][n] = 0

\* C6: JournalManager never passes to event_callback a line that was already
\* in the bootstrap file when monitoring started.
C6_NoHistoryReplay ==
    sut = "JournalManager"
    => \A f \in Files, n \in 1..MaxLines :
          (Exists(f) /\ n \in LinesOf(f) /\ BeforeBoot(f, n))
              => delivered[f][n] = 0

IsSystemCall(c) == c.kind = "system"
IsLocationLine(l) ==
    /\ Decodes(l.text)
    /\ json_loads(l.text).event \in {"FSDJump", "Location", "CarrierJump"}

\* C8: for every location event that a read of JournalMonitor processes, the
\* "system" callback of that event carries the event's StarSystem, and its
\* StarPos when it has one, else the coordinate known before that event; the
\* fields system_name and star_pos end as the last such callback reported.
C8_CoordinatePreserved ==
    [][(/\ sut = "JournalMonitor"
        /\ \E t \in Threads : mon[t].pc = "read" /\ mon'[t].pc = "loop"
        /\ Exists(current_file))
       => LET evs == SelectSeq(readlines(fs[current_file].data,
                                         current_position), IsLocationLine)
              sc == SelectSeq(calls', IsSystemCall)
          IN  /\ Len(sc) = Len(evs)
              /\ \A k \in 1..Len(evs) :
                    LET d == json_loads(evs[k].text)
                        before == IF k = 1 THEN star_pos
                                  ELSE sc[k - 1].position
                    IN  /\ d.StarSystem # "None" => sc[k].name = d.StarSystem
                        /\ d.StarPos # "None" => sc[k].position = d.StarPos
                        /\ d.StarPos = "None" => sc[k].position = before
              /\ star_pos' = IF sc = <<>> THEN star_pos
                             ELSE sc[Len(sc)].position
              /\ system_name' = IF sc = <<>> THEN system_name
                                ELSE sc[Len(sc)].name]_vars

\* a name-only Location event was processed while a coordinate was known
C8_Witness ==
    /\ sut = "JournalMonitor"
    /\ system_name = "Lave"
    /\ star_pos = "P1"
    /\ calls # <<>>
    /\ calls[1] = Call("system", "Lave", "P1", "Location")

\* C9: at most one thread executes _monitor_loop of a JournalMonitor at any
\* time, for any sequence of start() and stop() calls.
C9_SingleMonitorThread ==
    Cardinality({t \in Threads : Running(t)}) <= 1

\* C10: once JournalManager.stop_monitoring has returned, the monitor thread
\* is not running and event_callback is not invoked again.
C10_StopBlocksUntilExit ==
    /\ [](stop_returned => ~is_alive)
    /\ [][stop_returned => delivered' = delivered]_vars

\* the calls of a step, each taken as made whether or not it raised
WithoutRaise(cs) == [i \in 1..Len(cs) |-> [cs[i] EXCEPT !.raised = FALSE]]

\* thread t makes the read of its tick in this step
IsRead(t) == mon[t].pc = "read" /\ mon'[t].pc = "loop"

\* C11: after start(), a poll thread of JournalMonitor ends only when stop()
\* was called: no I/O failure and no exception raised by the consumer
\* callback ends it.
C11_RunsUntilStopped ==
    \A t \in Threads : mon[t].pc = "dead" => stop_event

\* C12: when the consumer callback raises on one notification of a read,
\* every other notification of that read is still made: the read makes the
\* same notifications, in the same order, as it would if nothing raised.
C12_RaiseIsolated ==
    [][\A t \in Threads :
          (IsRead(t) /\ ~tick'.failed) =>
              WithoutRaise(calls') = ProcessNewLines({}).calls]_vars

\* the read that a thread in "read" is about to make returns a whole line
ReadsCompleteLine ==
    /\ current_file # "None"
    /\ Exists(current_file)
    /\ \E l \in {readlines(fs[current_file].data, current_position)[i] :
                   i \in 1..Len(readlines(fs[current_file].data,
                                          current_position))} :
          /\ Len(l.text) = 2
          /\ l.text[1].part = "h"
          /\ l.text[2].part = "t"

\* C13: a tick of JournalMonitor whose read returns no new complete line
\* invokes the callback zero times, in its rotation part and in its read.
C13_QuietTick ==
    [][\A t \in Threads :
          (IsRead(t) /\ ~ReadsCompleteLine) =>
              (tick.calls = <<>> /\ calls' = <<>>)]_vars

\* the values of (system_name, star_pos) before the read that a thread in
\* "read" is about to make and after each whole line of it
BetweenLines ==
    LET new_lines == readlines(fs[current_file].data, current_position)
        st(i) == process_lines([system_name |-> system_name,
                                star_pos |-> star_pos, calls |-> <<>>,
                                dl |-> delivered, raises |-> {}, seen |-> {}],
                               current_file, SubSeq(new_lines, 1, i))
    IN  {<<st(i).system_name, st(i).star_pos>> : i \in 0..Len(new_lines)}

\* C14: what a thread of the consumer reads as (system_name, star_pos)
\* while the poll thread of JournalMonitor processes the lines of a read is
\* the pair as it was before one of these lines or after it, never the new
\* name of a location event with the coordinate from before that event.
C14_NoTornSnapshot ==
    [][\A t \in Threads :
          (IsRead(t) /\ snapshot' # snapshot) =>
              snapshot' \in BetweenLines]_vars

\* C18: in every state in which a poll thread of JournalMonitor is past its
\* bootstrap, current_position is at most that thread's last_size.
C18_OffsetWithinLastSize ==
    \A t \in Threads :
        mon[t].pc \in {"loop", "read"} => current_position <= mon[t].last_size

\* C19: when current_file changes from one file to another, current_position
\* becomes 0; and current_position decreases in a step only by becoming 0 in
\* a rotation or over a file truncated below it.
C19_OffsetResets ==
    [][/\ (current_file # "None" /\ current_file' # current_file)
            => current_position' = 0
       /\ current_position' < current_position
            => /\ current_position' = 0
               /\ \/ current_file' # current_file
                  \/ Size(current_file) < current_position]_vars

\* a rotation away from the initial journal, which held lines at bootstrap,
\* has just reset the offset
C19_Witness ==
    /\ sut = "JournalMonitor"
    /\ \E t \in Threads : mon[t].pc = "read" /\ tick.thread = t
    /\ tick.position > 0
    /\ current_position = 0
    /\ current_file # boot.file
    /\ boot.file # "None"

\* C20: after a tick of JournalMonitor in which the stat or the open of the
\* active file failed, no callback was made in the tick and
\* current_position, last_size and last_mtime are what they were when the
\* tick began, so that the next tick reads the pending bytes.
C20_FailedTickRetries ==
    tick.failed =>
        /\ tick.calls = <<>>
        /\ current_position = tick.position
        /\ mon[tick.thread].last_size = tick.last_size
        /\ mon[tick.thread].last_mtime = tick.last_mtime

\* the initial journal that _monitor_thread_func chooses when nothing is
\* persisted
FreshInitialJournal ==
    IF find_latest_journal_with_valid_data # "None"
    THEN find_latest_journal_with_valid_data
    ELSE IF find_latest_journal_with_fsdjump # "None"
    THEN find_latest_journal_with_fsdjump
    ELSE get_latest_journal_file

\* C16: the initial file that a run of JournalManager chooses does not
\* depend on the persisted current_journal value: it is the file chosen
\* when nothing is persisted.
C16_PersistedPathWriteOnly ==
    (sut = "JournalManager" /\ monitor_thread.pc = "boot")
        => InitialJournal = FreshInitialJournal

\* C15: a call of get_latest_journal_file or list_sorted_journals never
\* raises, whenever the directory or a listed file is removed.
C15_ListingNeverRaises ==
    listing.pc # "raised"

\* C17: the task that a worker takes from the queue has the highest
\* priority of the tasks that waited in the queue with it.
C17_HighestPriorityFirst ==
    taken # NoTaken =>
        \A i \in 1..Len(taken.waiting) :
            -taken.item[1] >= -taken.waiting[i][1]

\* C21: while the active file of JournalMonitor is gone and only files that
\* are older, by name and by modification time, remain, no step changes
\* current_file or current_position or delivers a line of another file.
C21_VanishedFileKeepsCursor ==
    [][(/\ sut = "JournalMonitor"
        /\ current_file # "None"
        /\ ~Exists(current_file)
        /\ \E g \in Files : Exists(g)
        /\ \A g \in Files :
              Exists(g) => /\ EmbeddedTs(g) < EmbeddedTs(current_file)
                           /\ Mtime(g) < fs[current_file].mtime)
       => /\ current_file' = current_file
          /\ current_position' = current_position
          /\ \A g \in Files \ {current_file} :
                delivered'[g] = delivered[g]]_vars

\* C24: JournalMonitor, started once, notifies the lines of a file in the
\* order they were written: a step that notifies line i of a file comes
\* before every notification of a later line j of that file.
C24_DeliveryInLineOrder ==
    [][\A f \in Files, i \in 1..MaxLines, j \in 1..MaxLines :
          (/\ sut = "JournalMonitor"
           /\ i < j
           /\ delivered'[f][i] > delivered[f][i])
          => delivered[f][j] = 0]_vars

\* the identity events among the lines that the next read will process
IdentityLines ==
    SelectSeq(readlines(fs[current_file].data, current_position),
              LAMBDA l : /\ Decodes(l.text)
                         /\ json_loads(l.text).event
                               \in {"Commander", "LoadGame"})
IdentityName(d) == IF d.Commander # "None" THEN d.Commander ELSE d.Name

\* C22: when a read of JournalMonitor processes Commander or LoadGame
\* events, commander_name is afterwards the name of the last of them,
\* whatever it was before.
C22_LaterIdentityWins ==
    [][\A t \in Threads :
          (/\ sut = "JournalMonitor"
           /\ IsRead(t)
           /\ current_file # "None"
           /\ Exists(current_file)
           /\ IdentityLines # <<>>)
          => commander_name' =
                IdentityName(json_loads(
                    IdentityLines[Len(IdentityLines)].text))]_vars

\* the lines that the next read will process, and those that decode
NewLines == readlines(fs[current_file].data, current_position)
DecodableLines == SelectSeq(NewLines, LAMBDA l : Decodes(l.text))
EventsOf(cs) ==
    LET evs == SelectSeq(cs, LAMBDA c : c.kind = "event")
    IN  [i \in 1..Len(evs) |-> evs[i].event]

\* C23: in a read of JournalMonitor the lines that fail to decode produce
\* no callback and do not end the thread, and leave system_name, star_pos
\* and commander_name as they were: the callbacks and the fields after the
\* read are those that the decodable lines alone produce, in line order.
C23_DecodeFailureSkipped ==
    [][\A t \in Threads :
          (/\ sut = "JournalMonitor"
           /\ IsRead(t)
           /\ current_file # "None"
           /\ Exists(current_file))
          => LET st == process_lines(
                          [system_name |-> system_name, star_pos |-> star_pos,
                           calls |-> <<>>, dl |-> delivered, raises |-> {},
                           seen |-> {}],
                          current_file, DecodableLines)
             IN  /\ mon'[t].pc = "loop"
                 /\ commander_name' = commander_name
                 /\ EventsOf(calls') =
                       [i \in 1..Len(DecodableLines) |->
                           json_loads(DecodableLines[i].text).event]
                 /\ calls' = st.calls
                 /\ system_name' = st.system_name
                 /\ star_pos' = st.star_pos
                 /\ DecodableLines = <<>> =>
                       /\ calls' = <<>>
                       /\ system_name' = system_name
                       /\ star_pos' = star_pos]_vars

\* a read has just processed, from the offset its tick began with, a line
\* that does not decode and after it a line that does, and made the
\* callbacks of the latter
C23_Witness ==
    \E t \in Threads :
        /\ sut = "JournalMonitor"
        /\ mon[t].pc = "loop"
        /\ tick.thread = t /\ ~tick.failed
        /\ visited = {current_file}
        /\ calls # <<>>
        /\ current_position = Size(current_file)
        /\ LET lines == readlines(fs[current_file].data, tick.position)
           IN  \E i \in 1..Len(lines), j \in 1..Len(lines) :
                  /\ i < j
                  /\ ~Decodes(lines[i].text)
                  /\ Decodes(lines[j].text)

\* position of a file name in string order
NameRank(name) == CHOOSE i \in 1..Len(DirNames) : DirNames[i] = name
TiedPairs(r) ==
    {p \in (1..Len(r)) \X (1..Len(r)) :
        p[1] < p[2] /\ extract_timestamp(r[p[1]]) = extract_timestamp(r[p[2]])}

\* C25: list_sorted_journals returns each journal-named file of the
\* directory once and no other file, in descending order of the timestamp
\* in the name, and the files of equal or unparsable timestamp in file
\* name order (one direction for all of them).
C25_SortedByNameTimestamp ==
    listing.fn = "list_sorted_journals" /\ listing.pc = "returned"
       /\ listing.order # <<>>
    => LET r == listing.result
       IN  /\ NoDuplicate(r)
           /\ {r[i] : i \in 1..Len(r)} =
                 {listing.order[i] : i \in 1..Len(listing.order)}
                    \cap {n \in DirNameSet : IsJournalName(n)}
           /\ \A i \in 1..Len(r), j \in 1..Len(r) :
                 i < j => extract_timestamp(r[i]) >= extract_timestamp(r[j])
           /\ \/ \A p \in TiedPairs(r) : NameRank(r[p[1]]) < NameRank(r[p[2]])
              \/ \A p \in TiedPairs(r) : NameRank(r[p[1]]) > NameRank(r[p[2]])

\* f holds a complete, decodable location event
HasLocationEvent(f) ==
    \E k \in 1..Len(readlines(fs[f].data, 0)) :
        IsLocationLine(readlines(fs[f].data, 0)[k])

RECURSIVE FirstWithLocation(_)
FirstWithLocation(files) ==
    IF files = <<>> THEN "None"
    ELSE IF HasLocationEvent(Head(files)) THEN Head(files)
    ELSE FirstWithLocation(Tail(files))

\* C26: over journal files made of whole lines,
\* find_latest_journal_with_valid_data is the first file, newest name
\* timestamp first, that holds a location event (FSDJump, Location,
\* CarrierJump); without such a file, the file of the newest name
\* timestamp; in an empty directory, None.
C26_NewestWithLocation ==
    (/\ sut = "JournalManager"
     /\ \A f \in Files : Exists(f) => AtLineStart(fs[f].data))
    => find_latest_journal_with_valid_data =
          IF list_sorted_journals = <<>> THEN "None"
          ELSE IF FirstWithLocation(list_sorted_journals) # "None"
          THEN FirstWithLocation(list_sorted_journals)
          ELSE Head(list_sorted_journals)

\* C27: while stop() has been called and start() not again, a poll thread
\* of JournalMonitor that is at the top of its loop ends there, without
\* callback and without moving the cursor, an ended thread stays ended,
\* and every running thread ends.
C27_StopEndsThread ==
    /\ [][\A t \in Threads :
             /\ (/\ sut = "JournalMonitor"
                 /\ stop_event /\ stop_event'
                 /\ mon[t].pc = "loop"
                 /\ mon'[t] # mon[t])
                => /\ mon'[t].pc = "dead"
                   /\ calls' = <<>>
                   /\ current_file' = current_file
                   /\ current_position' = current_position
                   /\ delivered' = delivered
             /\ mon[t].pc = "dead" => mon'[t] = mon[t]]_vars
    /\ \A t \in Threads :
          (sut = "JournalMonitor" /\ stop_event /\ Running(t))
             ~> (mon[t].pc = "dead" \/ ~stop_event)

\* a thread that had read lines was stopped and has ended, and start() was
\* not called again
C27_Witness ==
    /\ sut = "JournalMonitor"
    /\ stop_event
    /\ mon[1].pc = "dead"
    /\ mon[2].pc = "none"
    /\ \E n \in 1..MaxLines : delivered["A"][n] > 0

\* the StarSystem of the last location event of the lines, and the last
\* StarPos that a location event of the lines holds
RECURSIVE LastSystemAndPos(_, _)
LastSystemAndPos(lines, acc) ==
    IF lines = <<>> THEN acc
    ELSE IF ~IsLocationLine(Head(lines))
    THEN LastSystemAndPos(Tail(lines), acc)
    ELSE LET d == json_loads(Head(lines).text)
         IN  LastSystemAndPos(Tail(lines),
                 <<IF d.StarSystem # "None" THEN d.StarSystem ELSE acc[1],
                   IF d.StarPos # "None" THEN d.StarPos ELSE acc[2]>>)

\* C28: App.find_latest_journal_and_pos returns the StarSystem of the last
\* location event of the file and the last StarPos a location event
\* holds; a location event without StarPos, the first one included, still
\* gives its system name.
C28_LastSystemAndPos ==
    [][(sut = "App" /\ app' # app /\ Exists(app'.file))
       => app'.result =
             LastSystemAndPos(readlines(fs[app'.file].data, 0),
                              <<"None", "None">>)]_vars

\* C29: a task for which cancel_task returned True while it was queued,
\* before a worker started it, never has on_complete invoked.
C29_CancelledNeverCompletes ==
    \A task_id \in TaskIds :
        tasks[task_id].cancelled_queued => ~tasks[task_id].completed

\* C30: at most max_workers threads execute _worker_loop, and at most
\* max_workers tasks run, at any time.
C30_WorkerBound ==
    sut = "TaskQueue"
    => /\ Cardinality({w \in 1..Len(workers) : workers[w].pc # "dead"})
             <= max_workers
       /\ Cardinality({task_id \in TaskIds : tasks[task_id].is_running})
             <= max_workers

====
